---- MODULE Spec2Model ----
(***************************************************************************)
(* Model of the openwebui-dashboard front end:                             *)
(*   - pages/Dashboard.tsx : bootstrap Promise.all, render gates, the      *)
(*     date-range handler and the per-table page handlers;                 *)
(*   - components/Pagination (second module of Toast.tsx): derived page    *)
(*     numbers, visible range, Prev/Next buttons.                          *)
(* The aggregation API is the environment: every response (a value or a    *)
(* rejection) is a nondeterministic choice from a small set.               *)
(***************************************************************************)
EXTENDS Integers, Sequences, FiniteSets, Bags, TLC

VARIABLES
    loading,      \* Dashboard: useState(true)
    error,        \* Dashboard: useState<string | null>(null)
    overview,     \* Dashboard: useState<OverviewStats | null>(null)
    daily,        \* Dashboard: useState<DailyStat[]>([])
    rows,         \* per table: workspaces / developers / groups / tools / functions
    total,        \* per table: wsTotal / devTotal / grpTotal / toolTotal / fnTotal
    offset,       \* per table: wsOffset / devOffset / grpOffset / toolOffset / fnOffset
    dateRange,    \* the from/to pair held in the URL search params
    boot,         \* per initial fetch: state of the promise handed to Promise.all
    chain,        \* position of the Promise.all(...).catch(...).finally(...) chain
    allReason,    \* rejection reason of the Promise.all promise
    pageReqs,     \* bag of page fetches in flight, issued by the page handlers
    dailyReqs,    \* bag of daily-stats fetches in flight, issued by handleDateChange
    navs,         \* number of user actions since the page was loaded
    failedSub,    \* kinds of follow-up fetch that have rejected since the page was loaded
    pgIn,         \* Pagination: props (total, offset, limit) of the rendered control
    pgOut,        \* Pagination: what the last render produced
    pgEmit,       \* Pagination: last offset handed to onPageChange
    tblKind,      \* sortable table: which of the workspace / developer / group tables
    tblData,      \* sortable table: the data prop, the fetched page in API order
    sortKey,      \* sortable table: useState<SortKey>
    sortDir,      \* sortable table: useState<"asc" | "desc">("desc")
    clicked,      \* sortable table: column header of the last click
    tblShown,     \* sortable table: the rows of the last render, in display order
    fmtArg,       \* formatting helpers: the argument
    fmtRes,       \* formatting helpers: the results of the calls made on it
    mockUser,     \* Dashboard: useState(mockUser), the user prop of MockAuthBanner
    stored,       \* localStorage item "mockUser"
    editing,      \* MockAuthBanner: useState(false)
    inputValue,   \* MockAuthBanner: useState(user)
    bnLast,       \* MockAuthBanner: the last event handled
    nextId,       \* Toast module: let nextId = 0, shared by every ToastProvider
    toasts,       \* per ToastProvider: useState<Toast[]>([])
    timers,       \* the setTimeout callbacks that have not fired yet
    created,      \* the toasts created so far, in creation order
    tLast         \* ToastProvider: the last event handled

dashVars == <<loading, error, overview, daily, rows, total, offset, dateRange,
              boot, chain, allReason, pageReqs, dailyReqs, navs, failedSub>>
pgVars == <<pgIn, pgOut, pgEmit>>
sortVars == <<tblKind, tblData, sortKey, sortDir, clicked, tblShown>>
fmtVars == <<fmtArg, fmtRes>>
authVars == <<mockUser, stored, editing, inputValue, bnLast>>
toastVars == <<nextId, toasts, timers, created, tLast>>
vars == <<loading, error, overview, daily, rows, total, offset, dateRange,
          boot, chain, allReason, pageReqs, dailyReqs, navs, failedSub,
          pgIn, pgOut, pgEmit,
          tblKind, tblData, sortKey, sortDir, clicked, tblShown,
          fmtArg, fmtRes,
          mockUser, stored, editing, inputValue, bnLast,
          nextId, toasts, timers, created, tLast>>

----------------------------------------------------------------------------
(* Bounds of the model *)

MaxNav == 2          \* user actions (page clicks, date changes) per page load
MaxTotal == 45       \* largest total / offset given to a stand-alone Pagination
MaxLimit == 20       \* largest limit given to a stand-alone Pagination

(* Program constants *)

PAGE_SIZE == 20

----------------------------------------------------------------------------
(* Values *)

Null == "null"
NotRendered == "not rendered"

Tables == {"ws", "dev", "grp", "tool", "fn"}
Fetches == {"overview", "daily"} \cup Tables

\* The data snapshots the API may answer from.
Snapshots == {"s1", "s2"}
\* The totals a ranking endpoint may report: one page or less, and three pages.
Totals == {PAGE_SIZE - 5, 2 * PAGE_SIZE + 5}
\* The from/to pairs: the computed default window and one picked by the user.
Ranges == {"default", "picked"}
\* err?.message of a rejection; "" stands for a rejection without a message.
Messages == {"", "Network Error"}

EmptyRows == [off |-> 0, of |-> 0]
EmptyDaily == [rng |-> Null, ver |-> Null]

\* res of fetchXRanking(off, PAGE_SIZE) when the endpoint reports total T.
PageRes(off, T) == [items |-> [off |-> off, of |-> T], total |-> T]

\* Variant: the initial table fetches ask for the second page.
BootValues_SecondPage(f) ==
    IF f = "overview" THEN Snapshots
    ELSE IF f = "daily" THEN {[rng |-> dateRange, ver |-> s] : s \in Snapshots}
    ELSE {PageRes(PAGE_SIZE, T) : T \in Totals}

\* The values a bootstrap fetch f may resolve with.
BootValues(f) ==
    IF f = "overview" THEN Snapshots
    ELSE IF f = "daily" THEN {[rng |-> dateRange, ver |-> s] : s \in Snapshots}
    ELSE {PageRes(0, T) : T \in Totals}

\* JavaScript a || b on strings: the empty string is falsy.
OrElse(a, b) == IF a = "" THEN b ELSE a

\* JavaScript truthiness of a string | null.
Truthy(s) == s # Null /\ s # ""

BootFallback == "Failed to load dashboard data."
DailyFallback == "Failed to load daily stats."

\* What a promise of the bootstrap holds before it settles.
NoValue(f) ==
    IF f = "overview" THEN Null
    ELSE IF f = "daily" THEN EmptyDaily
    ELSE [items |-> EmptyRows, total |-> 0]

Pending(f) == [st |-> "pending", val |-> NoValue(f)]

----------------------------------------------------------------------------
(* Pagination (components/Pagination) *)

Min(a, b) == IF a <= b THEN a ELSE b
Max(a, b) == IF a >= b THEN a ELSE b

\* Math.floor(a / b) for a >= 0, b > 0.
Floor(a, b) == a \div b

\* Variant: the page count rounded down.
Ceil_RoundedDown(a, b) == a \div b

\* Math.ceil(a / b) for a >= 0, b > 0.
Ceil(a, b) == IF a % b = 0 THEN a \div b ELSE (a \div b) + 1

\* Variant: the early return taken only when total < limit.
Renders_Strict(tot, lim) == ~(tot < lim)

\* The early return: the control renders only when total > limit.
Renders(tot, lim) == ~(tot <= lim)

\* disabled attribute of the Prev button.
PrevDisabled(off) == off = 0

\* Variant: Next disabled only when offset + limit > total.
NextDisabled_Strict(tot, off, lim) == off + lim > tot

\* disabled attribute of the Next button.
NextDisabled(tot, off, lim) == off + lim >= tot

\* Variant: Prev without the clamp at 0.
PrevOffset_NoClamp(off, lim) == off - lim

\* Argument of onPageChange in the Prev button's onClick.
PrevOffset(off, lim) == Max(0, off - lim)

\* Variant: Next advancing by one row, as if the offset were a page index.
NextOffset_ByOne(off, lim) == off + 1

\* Argument of onPageChange in the Next button's onClick.
NextOffset(off, lim) == off + lim

\* One render of the control.
Pagination(tot, off, lim) ==
    [ currentPage  |-> Floor(off, lim) + 1,
      totalPages   |-> Ceil(tot, lim),
      from         |-> off + 1,
      to           |-> Min(off + lim, tot),
      rendered     |-> Renders(tot, lim),
      prevDisabled |-> PrevDisabled(off),
      nextDisabled |-> NextDisabled(tot, off, lim) ]

----------------------------------------------------------------------------
(* Dashboard (pages/Dashboard.tsx) *)

\* The render gates: loading view, error view, else the dashboard proper.
View ==
    IF loading THEN "loading"
    ELSE IF Truthy(error) THEN "error"
    ELSE "ready"

\* What the user sees of table t: its rows only in the dashboard proper.
Displayed(t) == IF View = "ready" THEN rows[t] ELSE NotRendered

AllResolved(b) == \A f \in Fetches : b[f].st = "resolved"
AnyRejected == \E f \in Fetches : boot[f].st = "rejected"

\* State right after the first render of a freshly loaded page showing range r.
Mounted(r) ==
    /\ loading = TRUE
    /\ error = Null
    /\ overview = Null
    /\ daily = EmptyDaily
    /\ rows = [t \in Tables |-> EmptyRows]
    /\ total = [t \in Tables |-> 0]
    /\ offset = [t \in Tables |-> 0]
    /\ dateRange = r
    /\ boot = [f \in Fetches |-> Pending(f)]
    /\ chain = "wait"
    /\ allReason = Null
    /\ pageReqs = EmptyBag
    /\ dailyReqs = EmptyBag
    /\ navs = 0
    /\ failedSub = {}

\* Variant: the table callbacks store the rows and forget the total.
BootThen_NoTotal(f, v) ==
    /\ overview' = IF f = "overview" THEN v ELSE overview
    /\ daily' = IF f = "daily" THEN v ELSE daily
    /\ rows' = IF f \in Tables THEN [rows EXCEPT ![f] = v.items] ELSE rows
    /\ total' = total

\* The .then callback of initial fetch f, run with the value v it resolved to.
BootThen(f, v) ==
    /\ overview' = IF f = "overview" THEN v ELSE overview
    /\ daily' = IF f = "daily" THEN v ELSE daily
    /\ rows' = IF f \in Tables THEN [rows EXCEPT ![f] = v.items] ELSE rows
    /\ total' = IF f \in Tables THEN [total EXCEPT ![f] = v.total] ELSE total

\* Initial fetch f resolves with v: its .then callback runs, and Promise.all
\* fulfils when it was the last one.
BootResolve(f, v) ==
    /\ boot[f].st = "pending"
    /\ BootThen(f, v)
    /\ boot' = [boot EXCEPT ![f] = [st |-> "resolved", val |-> v]]
    /\ chain' = IF chain = "wait" /\ AllResolved(boot') THEN "finally" ELSE chain
    /\ UNCHANGED <<loading, error, offset, dateRange, allReason, pageReqs,
                   dailyReqs, navs, failedSub>>

\* Initial fetch f rejects with message m: Promise.all rejects with the first
\* rejection and ignores the later ones.
BootReject(f, m) ==
    /\ boot[f].st = "pending"
    /\ boot' = [boot EXCEPT ![f] = [st |-> "rejected", val |-> NoValue(f)]]
    /\ chain' = IF chain = "wait" THEN "catch" ELSE chain
    /\ allReason' = IF chain = "wait" THEN m ELSE allReason
    /\ UNCHANGED <<loading, error, overview, daily, rows, total, offset,
                   dateRange, pageReqs, dailyReqs, navs, failedSub>>

\* Variant: the rejection is swallowed without setting the error.
BootCatch_Swallow ==
    /\ chain = "catch"
    /\ chain' = "finally"
    /\ UNCHANGED <<loading, error, overview, daily, rows, total, offset, dateRange,
                   boot, allReason, pageReqs, dailyReqs, navs, failedSub>>

\* .catch((err) => setError(err?.message || "Failed to load dashboard data."))
BootCatch ==
    /\ chain = "catch"
    /\ error' = OrElse(allReason, BootFallback)
    /\ chain' = "finally"
    /\ UNCHANGED <<loading, overview, daily, rows, total, offset, dateRange,
                   boot, allReason, pageReqs, dailyReqs, navs, failedSub>>

\* Variant: .then in place of .finally, skipped after a rejection.
BootFinally_OnlyFulfilled ==
    /\ chain = "finally"
    /\ loading' = (IF AnyRejected THEN loading ELSE FALSE)
    /\ chain' = "done"
    /\ UNCHANGED <<error, overview, daily, rows, total, offset, dateRange,
                   boot, allReason, pageReqs, dailyReqs, navs, failedSub>>

\* .finally(() => setLoading(false))
BootFinally ==
    /\ chain = "finally"
    /\ loading' = FALSE
    /\ chain' = "done"
    /\ UNCHANGED <<error, overview, daily, rows, total, offset, dateRange,
                   boot, allReason, pageReqs, dailyReqs, navs, failedSub>>

\* handleWsPage / handleDevPage / handleGrpPage / handleToolPage / handleFnPage:
\* store the new offset, then issue the fetch of that page.
handlePage(t, newOffset) ==
    /\ offset' = [offset EXCEPT ![t] = newOffset]
    /\ pageReqs' = pageReqs (+) SetToBag({[t |-> t, off |-> newOffset]})
    /\ UNCHANGED <<loading, error, overview, daily, rows, total, dateRange,
                   boot, chain, allReason, dailyReqs, failedSub>>

\* Variant: the date handler also puts the dashboard back into loading.
handleDateChange_Spinner(r) ==
    /\ dateRange' = r
    /\ dailyReqs' = dailyReqs (+) SetToBag({r})
    /\ loading' = TRUE
    /\ UNCHANGED <<error, overview, daily, rows, total, offset,
                   boot, chain, allReason, pageReqs, failedSub>>

\* handleDateChange: store the range in the URL, then issue the fetch.
handleDateChange(r) ==
    /\ dateRange' = r
    /\ dailyReqs' = dailyReqs (+) SetToBag({r})
    /\ UNCHANGED <<loading, error, overview, daily, rows, total, offset,
                   boot, chain, allReason, pageReqs, failedSub>>

\* The user presses Next of table t; the button exists only in the dashboard
\* proper, when the control renders and the button is not disabled.
ClickNext(t) ==
    /\ View = "ready"
    /\ navs < MaxNav
    /\ Renders(total[t], PAGE_SIZE)
    /\ ~NextDisabled(total[t], offset[t], PAGE_SIZE)
    /\ handlePage(t, NextOffset(offset[t], PAGE_SIZE))
    /\ navs' = navs + 1

\* The user presses Prev of table t.
ClickPrev(t) ==
    /\ View = "ready"
    /\ navs < MaxNav
    /\ Renders(total[t], PAGE_SIZE)
    /\ ~PrevDisabled(offset[t])
    /\ handlePage(t, PrevOffset(offset[t], PAGE_SIZE))
    /\ navs' = navs + 1

\* Variant: the chart and its date picker are rendered in every view.
ChangeDate_AnyView(r) ==
    /\ navs < MaxNav
    /\ handleDateChange(r)
    /\ navs' = navs + 1

\* The user picks range r in the chart (DailyChart onDateChange).
ChangeDate(r) ==
    /\ View = "ready"
    /\ navs < MaxNav
    /\ handleDateChange(r)
    /\ navs' = navs + 1

\* Variant: the tables share one total.
PageThen_SharedTotal(t, res) ==
    /\ rows' = [rows EXCEPT ![t] = res.items]
    /\ total' = [u \in Tables |-> res.total]

\* .then((res) => { setX(res.items); setXTotal(res.total); }) of a page fetch.
PageThen(t, res) ==
    /\ rows' = [rows EXCEPT ![t] = res.items]
    /\ total' = [total EXCEPT ![t] = res.total]

\* The page fetch req resolves, the endpoint reporting total T.
PageResolve(req, T) ==
    /\ BagIn(req, pageReqs)
    /\ pageReqs' = pageReqs (-) SetToBag({req})
    /\ PageThen(req.t, PageRes(req.off, T))
    /\ UNCHANGED <<loading, error, overview, daily, offset, dateRange, boot,
                   chain, allReason, dailyReqs, navs, failedSub>>

\* The page fetch req rejects: the chain has no .catch, nothing is set.
PageReject(req) ==
    /\ BagIn(req, pageReqs)
    /\ pageReqs' = pageReqs (-) SetToBag({req})
    /\ failedSub' = failedSub \cup {"page"}
    /\ UNCHANGED <<loading, error, overview, daily, rows, total, offset,
                   dateRange, boot, chain, allReason, dailyReqs, navs>>

\* Variant: a successful daily-stats fetch also clears the error.
DailyResolve_ClearsError(r, s) ==
    /\ BagIn(r, dailyReqs)
    /\ dailyReqs' = dailyReqs (-) SetToBag({r})
    /\ daily' = [rng |-> r, ver |-> s]
    /\ error' = Null
    /\ UNCHANGED <<loading, overview, rows, total, offset, dateRange,
                   boot, chain, allReason, pageReqs, navs, failedSub>>

\* The daily-stats fetch for range r resolves from snapshot s: .then(setDaily).
DailyResolve(r, s) ==
    /\ BagIn(r, dailyReqs)
    /\ dailyReqs' = dailyReqs (-) SetToBag({r})
    /\ daily' = [rng |-> r, ver |-> s]
    /\ UNCHANGED <<loading, error, overview, rows, total, offset, dateRange,
                   boot, chain, allReason, pageReqs, navs, failedSub>>

\* The daily-stats fetch for range r rejects with message m:
\* .catch((err) => setError(err?.message || "Failed to load daily stats."))
DailyReject(r, m) ==
    /\ BagIn(r, dailyReqs)
    /\ dailyReqs' = dailyReqs (-) SetToBag({r})
    /\ error' = OrElse(m, DailyFallback)
    /\ failedSub' = failedSub \cup {"daily"}
    /\ UNCHANGED <<loading, overview, daily, rows, total, offset, dateRange,
                   boot, chain, allReason, pageReqs, navs>>

\* The Retry button of the error view: window.location.reload(). The page is
\* loaded afresh; the URL, and with it the date range, is kept.
Retry ==
    /\ View = "error"
    /\ loading' = TRUE
    /\ error' = Null
    /\ overview' = Null
    /\ daily' = EmptyDaily
    /\ rows' = [t \in Tables |-> EmptyRows]
    /\ total' = [t \in Tables |-> 0]
    /\ offset' = [t \in Tables |-> 0]
    /\ boot' = [f \in Fetches |-> Pending(f)]
    /\ chain' = "wait"
    /\ allReason' = Null
    /\ pageReqs' = EmptyBag
    /\ dailyReqs' = EmptyBag
    /\ navs' = 0
    /\ failedSub' = {}
    /\ UNCHANGED dateRange

----------------------------------------------------------------------------
(* Sortable ranking tables: WorkspaceRankingTable, DeveloperRankingTable,  *)
(* GroupRankingTable                                                       *)

SortableTables == {"ws", "dev", "grp"}

\* type SortKey of each table (its clickable column headers).
SortKeys(kind) ==
    IF kind = "ws" THEN {"user_count", "chat_count", "message_count", "rating"}
    ELSE IF kind = "dev" THEN {"workspace_count", "total_users", "total_chats",
                               "total_messages", "rating"}
    ELSE {"member_count", "total_feedbacks", "chats_per_member", "messages_per_member"}

\* Initial value of the sortKey state of each table.
DefaultKey(kind) ==
    IF kind = "ws" THEN "chat_count"
    ELSE IF kind = "dev" THEN "total_chats"
    ELSE "chats_per_member"

\* The count vectors <<a, b, c, positive, negative>> the rows of a page are
\* built from; they tie on every column and hold the chat counts 5, 20, 1.
Vectors == {<<1, 5, 2, 3, 1>>, <<1, 20, 2, 0, 2>>, <<2, 1, 0, 2, 0>>, <<0, 5, 1, 1, 1>>}

\* Row number id of a fetched page of table kind, with the counts of vector v.
MkRow(kind, id, v) ==
    IF kind = "ws" THEN
        [id |-> id, user_count |-> v[1], chat_count |-> v[2], message_count |-> v[3],
         positive |-> v[4], negative |-> v[5]]
    ELSE IF kind = "dev" THEN
        [user_id |-> id, workspace_count |-> v[3], total_users |-> v[1],
         total_chats |-> v[2], total_messages |-> v[3],
         total_positive |-> v[4], total_negative |-> v[5]]
    ELSE
        [group_id |-> id, member_count |-> v[1], chats_per_member |-> v[2],
         messages_per_member |-> v[3], total_feedbacks |-> v[4] + v[5]]

\* The key attribute of a row (id / user_id / group_id).
RowId(kind, row) ==
    IF kind = "ws" THEN row.id ELSE IF kind = "dev" THEN row.user_id ELSE row.group_id

\* Variant: the rating with its operands swapped.
WsGetRating_Swapped(row) == row.negative - row.positive

\* getRating of WorkspaceRankingTable.
WsGetRating(row) == row.positive - row.negative

\* getRating of DeveloperRankingTable.
DevGetRating(row) == row.total_positive - row.total_negative

\* va / vb of the sort comparator: the value a row is compared on.
SortValue(kind, row, key) ==
    IF kind = "ws" THEN (IF key = "rating" THEN WsGetRating(row) ELSE row[key])
    ELSE IF kind = "dev" THEN (IF key = "rating" THEN DevGetRating(row) ELSE row[key])
    ELSE row[key]

\* Variant: the comparator with the two directions exchanged.
Compare_Exchanged(kind, a, b, key, dir) ==
    IF dir = "desc" THEN SortValue(kind, a, key) - SortValue(kind, b, key)
    ELSE SortValue(kind, b, key) - SortValue(kind, a, key)

\* The comparator: sortDir === "desc" ? vb - va : va - vb.
Compare(kind, a, b, key, dir) ==
    IF dir = "desc" THEN SortValue(kind, b, key) - SortValue(kind, a, key)
    ELSE SortValue(kind, a, key) - SortValue(kind, b, key)

\* Array.prototype.sort is stable: x goes after every element that does not
\* compare greater than it.
RECURSIVE InsertSorted(_, _, _, _, _)
InsertSorted(kind, key, dir, acc, x) ==
    IF acc = <<>> THEN <<x>>
    ELSE IF Compare(kind, Head(acc), x, key, dir) > 0 THEN <<x>> \o acc
    ELSE <<Head(acc)>> \o InsertSorted(kind, key, dir, Tail(acc), x)

RECURSIVE ArraySort(_, _, _, _)
ArraySort(kind, key, dir, arr) ==
    IF arr = <<>> THEN <<>>
    ELSE InsertSorted(kind, key, dir,
                      ArraySort(kind, key, dir, SubSeq(arr, 1, Len(arr) - 1)),
                      arr[Len(arr)])

Reverse(arr) == [i \in 1..Len(arr) |-> arr[Len(arr) + 1 - i]]

\* Variant: descending order obtained by sorting ascending and reversing.
Sorted_ReverseForDesc(kind, data, key, dir) ==
    IF dir = "desc" THEN Reverse(ArraySort(kind, key, "asc", data))
    ELSE ArraySort(kind, key, "asc", data)

\* const sorted = [...data].sort(comparator)
Sorted(kind, data, key, dir) == ArraySort(kind, key, dir, data)

\* The number shown in the "#" column of display row i.
RowNumber(kind, off, i) == IF kind = "dev" THEN i ELSE off + i

\* The table body: one display row per sorted row, with its number and, in
\* the workspace and developer tables, the value given to RatingCell.
TableBody(kind, data, key, dir, off) ==
    LET sorted == Sorted(kind, data, key, dir)
    IN  [i \in 1..Len(sorted) |->
            IF kind = "ws" THEN
                [n |-> RowNumber(kind, off, i), row |-> sorted[i],
                 rating |-> WsGetRating(sorted[i])]
            ELSE IF kind = "dev" THEN
                [n |-> RowNumber(kind, off, i), row |-> sorted[i],
                 rating |-> DevGetRating(sorted[i])]
            ELSE [n |-> RowNumber(kind, off, i), row |-> sorted[i]]]

\* Variant: choosing another column keeps the current direction.
handleSort_KeepDir(key) ==
    /\ key \in SortKeys(tblKind)
    /\ clicked' = key
    /\ sortKey' = key
    /\ sortDir' = IF sortKey = key THEN (IF sortDir = "desc" THEN "asc" ELSE "desc")
                  ELSE sortDir
    /\ tblShown' = TableBody(tblKind, tblData, sortKey', sortDir', offset[tblKind])
    /\ UNCHANGED <<tblKind, tblData>>
    /\ UNCHANGED dashVars

\* Variant: sorting also goes back to the first page.
handleSort_FirstPage(key) ==
    /\ key \in SortKeys(tblKind)
    /\ clicked' = key
    /\ sortKey' = key
    /\ sortDir' = IF sortKey = key THEN (IF sortDir = "desc" THEN "asc" ELSE "desc")
                  ELSE "desc"
    /\ tblShown' = TableBody(tblKind, tblData, sortKey', sortDir', 0)
    /\ UNCHANGED <<tblKind, tblData>>
    /\ handlePage(tblKind, 0)
    /\ UNCHANGED navs

\* handleSort, called by the click on column header key, and the render
\* that follows: nothing but the two sort states is set.
handleSort(key) ==
    /\ key \in SortKeys(tblKind)
    /\ clicked' = key
    /\ sortKey' = key
    /\ sortDir' = IF sortKey = key THEN (IF sortDir = "desc" THEN "asc" ELSE "desc")
                  ELSE "desc"
    /\ tblShown' = TableBody(tblKind, tblData, sortKey', sortDir', offset[tblKind])
    /\ UNCHANGED <<tblKind, tblData>>
    /\ UNCHANGED dashVars

\* The parent re-renders the table with another page as its data prop; the
\* sort states are kept.
ReceivePage(data) ==
    /\ tblData' = data
    /\ tblShown' = TableBody(tblKind, data, sortKey, sortDir, offset[tblKind])
    /\ UNCHANGED <<tblKind, sortKey, sortDir, clicked>>
    /\ UNCHANGED dashVars

\* The Next button of the table's Pagination: onPageChange is the page
\* handler of the Dashboard; the table is rendered again with the new offset
\* and the rows it still holds.
TableClickNext ==
    /\ ClickNext(tblKind)
    /\ tblShown' = TableBody(tblKind, tblData, sortKey, sortDir, offset'[tblKind])
    /\ UNCHANGED <<tblKind, tblData, sortKey, sortDir, clicked>>

\* The Prev button of the table's Pagination.
TableClickPrev ==
    /\ ClickPrev(tblKind)
    /\ tblShown' = TableBody(tblKind, tblData, sortKey, sortDir, offset'[tblKind])
    /\ UNCHANGED <<tblKind, tblData, sortKey, sortDir, clicked>>

\* Variant: the table is mounted afresh for every page, its sort states
\* back at their initial values.
TablePageArrives_Remount(req, T, data) ==
    /\ req.t = tblKind
    /\ PageResolve(req, T)
    /\ tblData' = data
    /\ sortKey' = DefaultKey(tblKind)
    /\ sortDir' = "desc"
    /\ tblShown' = TableBody(tblKind, data, sortKey', sortDir', offset[tblKind])
    /\ UNCHANGED <<tblKind, clicked>>

\* The page fetch req of the table resolves with the rows data and total T:
\* setX(res.items) replaces the data prop, the sort states are kept.
TablePageArrives(req, T, data) ==
    /\ req.t = tblKind
    /\ PageResolve(req, T)
    /\ tblData' = data
    /\ tblShown' = TableBody(tblKind, data, sortKey, sortDir, offset[tblKind])
    /\ UNCHANGED <<tblKind, sortKey, sortDir, clicked>>

----------------------------------------------------------------------------
(* Strings. A string is the sequence of its characters; a value that is    *)
(* not a string is a one-element sequence holding its name.                *)

Undefined == <<"undefined">>
TypeError == <<"TypeError">>
Dash == <<"-">>
NoneStr == <<"N", "o", "n", "e">>
IsoExample == <<"2", "0", "2", "4", "-", "0", "5", "-", "0", "1", "T", "0", "3", ":", "1", "5", ":", "2", "2", "Z">>
IsoFormatted == <<"2", "0", "2", "4", "-", "0", "5", "-", "0", "1", " ", "0", "3", ":", "1", "5">>
EmailExample == <<"j", "i", "s", "u", "n", "g", ".", "j", "a", "n", "g", "@", "s", "a", "m", "s", "u", "n", "g", ".", "c", "o", "m">>
EmailExamplePrefix == <<"j", "i", "s", "u", "n", "g", ".", "j", "a", "n", "g">>

\* JavaScript !s for a string that may be absent.
Falsy(s) == s = <<>> \/ s = Undefined

\* s.includes(c)
Includes(s, c) == \E i \in 1..Len(s) : s[i] = c

\* s.indexOf(c), counted from 1; Len(s) + 1 when c does not occur.
IndexOf(s, c) ==
    IF Includes(s, c) THEN CHOOSE i \in 1..Len(s) : s[i] = c /\ \A j \in 1..(i - 1) : s[j] # c
    ELSE Len(s) + 1

\* s.split("@")[0]
BeforeAt(s) == SubSeq(s, 1, IndexOf(s, "@") - 1)

\* s.slice(0, n)
Slice(s, n) == SubSeq(s, 1, Min(n, Len(s)))

\* Variant: every occurrence replaced, as replaceAll does.
ReplaceFirst_All(s, c, d) == [i \in 1..Len(s) |-> IF s[i] = c THEN d ELSE s[i]]

\* s.replace(c, d) with a string pattern: the first occurrence only.
ReplaceFirst(s, c, d) ==
    [i \in 1..Len(s) |-> IF i = IndexOf(s, c) THEN d ELSE s[i]]

\* s.trim()
RECURSIVE TrimStart(_)
TrimStart(s) == IF s # <<>> /\ Head(s) = " " THEN TrimStart(Tail(s)) ELSE s
RECURSIVE TrimEnd(_)
TrimEnd(s) ==
    IF s # <<>> /\ s[Len(s)] = " " THEN TrimEnd(SubSeq(s, 1, Len(s) - 1)) ELSE s
Trim(s) == TrimEnd(TrimStart(s))

\* All strings over alphabet of length at most n.
StringsUpTo(alphabet, n) == UNION {[1..k -> alphabet] : k \in 0..n}

----------------------------------------------------------------------------
(* Formatting helpers: lib/table-utils, DeveloperRankingTable,             *)
(* ToolRankingTable, FunctionRankingTable                                  *)

SLICE_END == 16

\* emailPrefix of lib/table-utils.
emailPrefix(email) == IF Falsy(email) THEN Dash ELSE BeforeAt(email)

\* emailPrefix of DeveloperRankingTable: split is called on the argument as
\* it is, which throws when the argument is not a string.
DevEmailPrefix(email) == IF email = Undefined THEN TypeError ELSE BeforeAt(email)

\* formatDate of ToolRankingTable.
ToolFormatDate(dateStr) ==
    IF Falsy(dateStr) \/ dateStr = NoneStr THEN Dash
    ELSE ReplaceFirst(Slice(dateStr, SLICE_END), "T", " ")

\* formatDate of FunctionRankingTable.
FunctionFormatDate(dateStr) ==
    IF Falsy(dateStr) \/ dateStr = NoneStr THEN Dash
    ELSE ReplaceFirst(Slice(dateStr, SLICE_END), "T", " ")

----------------------------------------------------------------------------
(* MockAuthBanner, and the mockUser state of the Dashboard                 *)

\* A user name is an atom: it holds neither "@" nor white space.
PRESET_USERS == {<<"jisung.jang">>, <<"test.user">>, <<"admin.dev">>}
DefaultUser == <<"jisung.jang">>
NoItem == <<"null">>

\* useState(() => localStorage.getItem("mockUser") || "jisung.jang")
InitialUser(item) == IF item = NoItem \/ item = <<>> THEN DefaultUser ELSE item

\* onChangeUser={(u) => { setMockUser(u); localStorage.setItem("mockUser", u); }}
onChangeUser(u) ==
    /\ mockUser' = u
    /\ stored' = u

\* Variant: the whole trimmed input is handed over, "@" and domain included.
handleSubmit_NoSplit ==
    /\ editing
    /\ LET trimmed == Trim(inputValue)
       IN  IF trimmed # <<>>
           THEN onChangeUser(trimmed)
           ELSE UNCHANGED <<mockUser, stored>>
    /\ editing' = FALSE
    /\ bnLast' = "submit"
    /\ UNCHANGED inputValue

\* handleSubmit, run by the form's submit and by the input's blur.
handleSubmit ==
    /\ editing
    /\ LET trimmed == Trim(inputValue)
       IN  IF trimmed # <<>>
           THEN onChangeUser(IF Includes(trimmed, "@") THEN BeforeAt(trimmed) ELSE trimmed)
           ELSE UNCHANGED <<mockUser, stored>>
    /\ editing' = FALSE
    /\ bnLast' = "submit"
    /\ UNCHANGED inputValue

\* Click on the user name: setInputValue(user); setEditing(true).
StartEdit ==
    /\ ~editing
    /\ inputValue' = mockUser
    /\ editing' = TRUE
    /\ bnLast' = "edit"
    /\ UNCHANGED <<mockUser, stored>>

\* onChange of the input: the user replaces the text by s.
TypeInput(s) ==
    /\ editing
    /\ inputValue' = s
    /\ bnLast' = "type"
    /\ UNCHANGED <<mockUser, stored, editing>>

\* Click on a preset button; the buttons show the presets other than the
\* current user, and only outside editing.
ClickPreset(u) ==
    /\ ~editing
    /\ u \in PRESET_USERS \ {mockUser}
    /\ onChangeUser(u)
    /\ bnLast' = "preset"
    /\ UNCHANGED <<editing, inputValue>>

\* The page is loaded again: the component state is rebuilt, localStorage
\* is kept.
AuthReload ==
    /\ mockUser' = InitialUser(stored)
    /\ inputValue' = InitialUser(stored)
    /\ editing' = FALSE
    /\ bnLast' = "mount"
    /\ UNCHANGED stored

----------------------------------------------------------------------------
(* Toasts (components/Toast.tsx): ToastProvider                            *)

MaxToasts == 3       \* toasts created per page load

\* The ToastProvider instances that share the module.
Providers == {"p1", "p2"}
\* type: "info" is the default of toast(message, type).
ToastTypes == {"info", "error"}
ToastMessages == {"saved"}
TIMEOUT_MS == 4000

\* prev.filter((t) => t.id !== id)
FilterOut(list, id) == SelectSeq(list, LAMBDA t : t.id # id)

IsShown(p, id) == \E k \in 1..Len(toasts[p]) : toasts[p][k].id = id

\* The toasts created by provider p so far.
CreatedBy(p) == SelectSeq(created, LAMBDA c : c.p = p)

\* Variant: every provider counts its own toasts.
toast_OwnCounter(p, message, type) ==
    /\ nextId < MaxToasts
    /\ LET id == Len(CreatedBy(p))
       IN  /\ nextId' = nextId + 1
           /\ toasts' = [toasts EXCEPT ![p] = Append(@, [id |-> id, message |-> message, type |-> type])]
           /\ timers' = timers \cup {[p |-> p, id |-> id, ms |-> TIMEOUT_MS]}
           /\ created' = Append(created, [p |-> p, id |-> id])
    /\ tLast' = [ev |-> "toast", hit |-> FALSE]

\* toast(message, type) of provider p: const id = nextId++; the toast is
\* appended and the timer that removes it is started.
toast(p, message, type) ==
    /\ nextId < MaxToasts
    /\ LET id == nextId
       IN  /\ nextId' = nextId + 1
           /\ toasts' = [toasts EXCEPT ![p] = Append(@, [id |-> id, message |-> message, type |-> type])]
           /\ timers' = timers \cup {[p |-> p, id |-> id, ms |-> TIMEOUT_MS]}
           /\ created' = Append(created, [p |-> p, id |-> id])
    /\ tLast' = [ev |-> "toast", hit |-> FALSE]

\* dismiss(id), called by the X button of a displayed toast of provider p.
dismiss(p, id) ==
    /\ IsShown(p, id)
    /\ toasts' = [toasts EXCEPT ![p] = FilterOut(@, id)]
    /\ tLast' = [ev |-> "dismiss", hit |-> TRUE]
    /\ UNCHANGED <<nextId, timers, created>>

\* Variant: the timer removes the oldest toast displayed.
TimerFires_Oldest(tm) ==
    /\ tm \in timers
    /\ timers' = timers \ {tm}
    /\ toasts' = [toasts EXCEPT ![tm.p] = IF @ = <<>> THEN @ ELSE Tail(@)]
    /\ tLast' = [ev |-> "timer", hit |-> IsShown(tm.p, tm.id)]
    /\ UNCHANGED <<nextId, created>>

\* The timer tm of a toast fires after 4000 ms: the toast with its id is
\* filtered out of the list of its provider.
TimerFires(tm) ==
    /\ tm \in timers
    /\ timers' = timers \ {tm}
    /\ toasts' = [toasts EXCEPT ![tm.p] = FilterOut(@, tm.id)]
    /\ tLast' = [ev |-> "timer", hit |-> IsShown(tm.p, tm.id)]
    /\ UNCHANGED <<nextId, created>>

\* The module just loaded and the providers just mounted.
ToastIdle ==
    /\ nextId = 0
    /\ toasts = [p \in Providers |-> <<>>]
    /\ timers = {}
    /\ created = <<>>
    /\ tLast = [ev |-> "mount", hit |-> FALSE]

----------------------------------------------------------------------------
(* The dashboard as a state machine *)

PgIdle ==
    /\ pgIn = [total |-> 0, offset |-> 0, limit |-> 1]
    /\ pgOut = <<>>
    /\ pgEmit = <<>>

\* No sortable table under study.
SortIdle ==
    /\ tblKind = "ws"
    /\ tblData = <<>>
    /\ sortKey = DefaultKey("ws")
    /\ sortDir = "desc"
    /\ clicked = "none"
    /\ tblShown = <<>>

\* No formatting helper called.
FmtIdle ==
    /\ fmtArg = <<>>
    /\ fmtRes = <<>>

\* The banner as mounted on a browser without a stored user.
AuthIdle ==
    /\ mockUser = InitialUser(NoItem)
    /\ stored = NoItem
    /\ editing = FALSE
    /\ inputValue = InitialUser(NoItem)
    /\ bnLast = "mount"

asideVars == <<pgVars, sortVars, fmtVars, authVars, toastVars>>

Init == Mounted("default") /\ PgIdle /\ SortIdle /\ FmtIdle /\ AuthIdle /\ ToastIdle

Next ==
    \/ \E f \in Fetches : \E v \in BootValues(f) : BootResolve(f, v) /\ UNCHANGED asideVars
    \/ \E f \in Fetches : \E m \in Messages : BootReject(f, m) /\ UNCHANGED asideVars
    \/ BootCatch /\ UNCHANGED asideVars
    \/ BootFinally /\ UNCHANGED asideVars
    \/ \E t \in Tables : ClickNext(t) /\ UNCHANGED asideVars
    \/ \E t \in Tables : ClickPrev(t) /\ UNCHANGED asideVars
    \/ \E r \in Ranges : ChangeDate(r) /\ UNCHANGED asideVars
    \/ \E req \in BagToSet(pageReqs) : \E T \in Totals : PageResolve(req, T) /\ UNCHANGED asideVars
    \/ \E req \in BagToSet(pageReqs) : PageReject(req) /\ UNCHANGED asideVars
    \/ \E r \in BagToSet(dailyReqs) : \E s \in Snapshots : DailyResolve(r, s) /\ UNCHANGED asideVars
    \/ \E r \in BagToSet(dailyReqs) : \E m \in Messages : DailyReject(r, m) /\ UNCHANGED asideVars
    \/ Retry /\ UNCHANGED asideVars

Spec == Init /\ [][Next]_vars

\* An initial fetch settles: the network answers or fails.
BootSettles ==
    \E f \in Fetches :
        \/ \E v \in BootValues(f) : BootResolve(f, v) /\ UNCHANGED asideVars
        \/ \E m \in Messages : BootReject(f, m) /\ UNCHANGED asideVars

\* Every initial fetch eventually settles, and the reactions of the
\* Promise.all chain, being microtasks, eventually run.
Fairness ==
    /\ WF_vars(BootSettles)
    /\ WF_vars(BootCatch /\ UNCHANGED asideVars)
    /\ WF_vars(BootFinally /\ UNCHANGED asideVars)

SpecLive == Init /\ [][Next]_vars /\ Fairness

----------------------------------------------------------------------------
(* A Pagination control on its own, given arbitrary props *)

PgProps == [total : 0..MaxTotal, offset : 0..MaxTotal, limit : 1..MaxLimit]

\* The control is rendered with its props.
PgRender ==
    /\ pgOut = <<>>
    /\ pgOut' = <<Pagination(pgIn.total, pgIn.offset, pgIn.limit)>>
    /\ UNCHANGED <<pgIn, pgEmit>>

\* The Prev button is pressed: it exists when the control rendered, and a
\* disabled button does not fire onClick.
PgClickPrev ==
    /\ pgOut # <<>>
    /\ pgEmit = <<>>
    /\ pgOut[1].rendered
    /\ ~pgOut[1].prevDisabled
    /\ pgEmit' = <<"prev", PrevOffset(pgIn.offset, pgIn.limit)>>
    /\ UNCHANGED <<pgIn, pgOut>>

\* The Next button is pressed.
PgClickNext ==
    /\ pgOut # <<>>
    /\ pgEmit = <<>>
    /\ pgOut[1].rendered
    /\ ~pgOut[1].nextDisabled
    /\ pgEmit' = <<"next", NextOffset(pgIn.offset, pgIn.limit)>>
    /\ UNCHANGED <<pgIn, pgOut>>

InitPg ==
    /\ Mounted("default")
    /\ pgIn \in PgProps
    /\ pgOut = <<>>
    /\ pgEmit = <<>>
    /\ SortIdle /\ FmtIdle /\ AuthIdle /\ ToastIdle

NextPg ==
    \/ PgRender /\ UNCHANGED <<dashVars, sortVars, fmtVars, authVars, toastVars>>
    \/ PgClickPrev /\ UNCHANGED <<dashVars, sortVars, fmtVars, authVars, toastVars>>
    \/ PgClickNext /\ UNCHANGED <<dashVars, sortVars, fmtVars, authVars, toastVars>>

SpecPg == InitPg /\ [][NextPg]_vars

----------------------------------------------------------------------------
(* A dashboard that became ready, table kind having been moved to offset   *)
(* off of a three-page result                                              *)

ReadyDashboard(kind, off) ==
    /\ loading = FALSE
    /\ error = Null
    /\ overview = "s1"
    /\ daily = [rng |-> "default", ver |-> "s1"]
    /\ rows = [t \in Tables |->
                 PageRes(IF t = kind THEN off ELSE 0, 2 * PAGE_SIZE + 5).items]
    /\ total = [t \in Tables |-> 2 * PAGE_SIZE + 5]
    /\ offset = [t \in Tables |-> IF t = kind THEN off ELSE 0]
    /\ dateRange = "default"
    /\ boot = [f \in Fetches |->
                 [st |-> "resolved",
                  val |-> IF f = "overview" THEN "s1"
                          ELSE IF f = "daily" THEN [rng |-> "default", ver |-> "s1"]
                          ELSE PageRes(0, 2 * PAGE_SIZE + 5)]]
    /\ chain = "done"
    /\ allReason = Null
    /\ pageReqs = EmptyBag
    /\ dailyReqs = EmptyBag
    /\ navs = IF off = 0 THEN 0 ELSE 1
    /\ failedSub = {}

----------------------------------------------------------------------------
(* A sortable ranking table on its own, in a ready dashboard *)

MaxRows == 3         \* rows of a fetched page

\* The pages of table kind: up to MaxRows rows, numbered in API order.
Pages(kind) ==
    UNION {{[i \in 1..n |-> MkRow(kind, i, vs[i])] : vs \in [1..n -> Vectors]} :
           n \in 0..MaxRows}

InitSort ==
    /\ tblKind \in SortableTables
    /\ \E off \in {0, PAGE_SIZE} : ReadyDashboard(tblKind, off)
    /\ tblData \in Pages(tblKind)
    /\ sortKey = DefaultKey(tblKind)
    /\ sortDir = "desc"
    /\ clicked = "none"
    /\ tblShown = TableBody(tblKind, tblData, sortKey, sortDir, offset[tblKind])
    /\ PgIdle /\ FmtIdle /\ AuthIdle /\ ToastIdle

NextSort ==
    \/ \E key \in SortKeys(tblKind) : handleSort(key) /\ UNCHANGED <<pgVars, fmtVars, authVars, toastVars>>
    \/ \E data \in Pages(tblKind) : ReceivePage(data) /\ UNCHANGED <<pgVars, fmtVars, authVars, toastVars>>

SpecSort == InitSort /\ [][NextSort]_vars

----------------------------------------------------------------------------
(* A sortable ranking table paged through by its Pagination control *)

MaxNavRows == 2      \* rows of a page fetched while paging

\* Two count vectors of opposite order on every column.
NavVectors == {<<1, 20, 2, 0, 2>>, <<2, 1, 0, 2, 0>>}

\* The pages of table kind that a page fetch may return.
NavPages(kind) ==
    UNION {{[i \in 1..n |-> MkRow(kind, i, vs[i])] : vs \in [1..n -> NavVectors]} :
           n \in 0..MaxNavRows}

InitSortNav ==
    /\ tblKind \in SortableTables
    /\ ReadyDashboard(tblKind, 0)
    /\ tblData \in NavPages(tblKind)
    /\ sortKey = DefaultKey(tblKind)
    /\ sortDir = "desc"
    /\ clicked = "none"
    /\ tblShown = TableBody(tblKind, tblData, sortKey, sortDir, offset[tblKind])
    /\ PgIdle /\ FmtIdle /\ AuthIdle /\ ToastIdle

NextSortNav ==
    \/ \E key \in SortKeys(tblKind) : handleSort(key) /\ UNCHANGED <<pgVars, fmtVars, authVars, toastVars>>
    \/ TableClickNext /\ UNCHANGED <<pgVars, fmtVars, authVars, toastVars>>
    \/ TableClickPrev /\ UNCHANGED <<pgVars, fmtVars, authVars, toastVars>>
    \/ \E req \in BagToSet(pageReqs) : \E T \in Totals : \E data \in NavPages(tblKind) :
          TablePageArrives(req, T, data) /\ UNCHANGED <<pgVars, fmtVars, authVars, toastVars>>

SpecSortNav == InitSortNav /\ [][NextSortNav]_vars

----------------------------------------------------------------------------
(* The formatting helpers, called on arbitrary arguments *)

MaxStr == 3          \* length of an enumerated e-mail string
MaxPad == 17         \* digits put before the date/time separator of a date string

Digits(n) == [i \in 1..n |-> "0"]

\* E-mail arguments: every short string over a letter, a dot and "@".
EmailArgs == StringsUpTo({"a", ".", "@"}, MaxStr) \cup {EmailExample}

\* Date arguments: up to two separator characters between runs of digits.
DateArgs ==
    {Digits(n) \o w \o Digits(m) :
        n \in 0..MaxPad, w \in StringsUpTo({"T", ":"}, 2), m \in 0..2}
    \cup {NoneStr, IsoExample}

FmtArgs == EmailArgs \cup DateArgs \cup {Undefined}

\* A table cell calls both versions of emailPrefix on the argument.
CallEmailPrefix ==
    /\ fmtRes = <<>>
    /\ fmtRes' = <<<<"emailPrefix">>, emailPrefix(fmtArg), DevEmailPrefix(fmtArg)>>
    /\ UNCHANGED fmtArg

\* A table cell calls both versions of formatDate on the argument.
CallFormatDate ==
    /\ fmtRes = <<>>
    /\ fmtRes' = <<<<"formatDate">>, ToolFormatDate(fmtArg), FunctionFormatDate(fmtArg)>>
    /\ UNCHANGED fmtArg

InitFmt ==
    /\ Mounted("default")
    /\ fmtArg \in FmtArgs
    /\ fmtRes = <<>>
    /\ PgIdle /\ SortIdle /\ AuthIdle /\ ToastIdle

NextFmt ==
    \/ CallEmailPrefix /\ UNCHANGED <<dashVars, pgVars, sortVars, authVars, toastVars>>
    \/ CallFormatDate /\ UNCHANGED <<dashVars, pgVars, sortVars, authVars, toastVars>>

SpecFmt == InitFmt /\ [][NextFmt]_vars

----------------------------------------------------------------------------
(* The MockAuthBanner of a ready dashboard *)

MaxInput == 3        \* length of the text typed into the banner

\* What the user may type: letters, blanks and "@".
Typed == StringsUpTo({"a", " ", "@"}, MaxInput)

InitAuth ==
    /\ ReadyDashboard("ws", 0)
    /\ AuthIdle
    /\ PgIdle /\ SortIdle /\ FmtIdle /\ ToastIdle

NextAuth ==
    \/ StartEdit /\ UNCHANGED <<dashVars, pgVars, sortVars, fmtVars, toastVars>>
    \/ \E s \in Typed : TypeInput(s) /\ UNCHANGED <<dashVars, pgVars, sortVars, fmtVars, toastVars>>
    \/ handleSubmit /\ UNCHANGED <<dashVars, pgVars, sortVars, fmtVars, toastVars>>
    \/ \E u \in PRESET_USERS : ClickPreset(u) /\ UNCHANGED <<dashVars, pgVars, sortVars, fmtVars, toastVars>>
    \/ AuthReload /\ UNCHANGED <<dashVars, pgVars, sortVars, fmtVars, toastVars>>

SpecAuth == InitAuth /\ [][NextAuth]_vars

----------------------------------------------------------------------------
(* The toast providers of a ready dashboard *)

InitToast ==
    /\ ReadyDashboard("ws", 0)
    /\ ToastIdle
    /\ PgIdle /\ SortIdle /\ FmtIdle /\ AuthIdle

NextToast ==
    \/ \E p \in Providers : \E message \in ToastMessages : \E type \in ToastTypes :
          toast(p, message, type) /\ UNCHANGED <<dashVars, pgVars, sortVars, fmtVars, authVars>>
    \/ \E p \in Providers : \E id \in 0..MaxToasts :
          dismiss(p, id) /\ UNCHANGED <<dashVars, pgVars, sortVars, fmtVars, authVars>>
    \/ \E tm \in timers :
          TimerFires(tm) /\ UNCHANGED <<dashVars, pgVars, sortVars, fmtVars, authVars>>

\* A started timer eventually fires.
TimersFire ==
    \E tm \in timers :
        TimerFires(tm) /\ UNCHANGED <<dashVars, pgVars, sortVars, fmtVars, authVars>>

SpecToast == InitToast /\ [][NextToast]_vars /\ WF_vars(TimersFire)

----------------------------------------------------------------------------
(* Properties of the bootstrap and of the follow-up fetches *)

\* C1: when an initial fetch has rejected the dashboard is never ready, and
\* once the Promise.all chain has run it shows the error view: loading is
\* false, error is the message of the rejection Promise.all reported (the
\* first one) or the generic fallback, and no table is displayed, however many
\* of the other fetches resolved.
C1_BootstrapRejectionEndsInError ==
    AnyRejected =>
        /\ View # "ready"
        /\ chain = "done" =>
            /\ loading = FALSE
            /\ error = OrElse(allReason, BootFallback)
            /\ error \in {"Network Error", BootFallback}
            /\ View = "error"
            /\ \A t \in Tables : Displayed(t) = NotRendered

\* C1 witness: one fetch rejected without a message, the six others resolved,
\* and the dashboard shows the fallback error.
C1_Witness ==
    /\ boot["grp"].st = "rejected"
    /\ \A f \in Fetches \ {"grp"} : boot[f].st = "resolved"
    /\ chain = "done"
    /\ error = BootFallback
    /\ ~loading

\* C2: loading ends only when every initial fetch resolved or one rejected;
\* the dashboard is ready only when all resolved; and when it becomes ready
\* (no user action yet) every dataset holds the value its fetch resolved to.
C2_ReadyOnlyWhenAllResolved ==
    /\ ~loading => (AllResolved(boot) \/ AnyRejected)
    /\ View = "ready" => AllResolved(boot)
    /\ (View = "ready" /\ navs = 0) =>
        /\ overview = boot["overview"].val
        /\ daily = boot["daily"].val
        /\ \A t \in Tables :
            /\ rows[t] = boot[t].val.items
            /\ total[t] = boot[t].val.total

\* C2 witness: a ready dashboard, before any user action, whose fetches
\* returned different values.
C2_Witness ==
    /\ View = "ready"
    /\ navs = 0
    /\ overview = "s2"
    /\ daily.ver = "s1"
    /\ total["ws"] = 2 * PAGE_SIZE + 5
    /\ total["dev"] = PAGE_SIZE - 5

\* C3 (as claimed): whenever a follow-up fetch has failed, the dashboard
\* shows an error message.
C3_SubFetchFailureSurfaced ==
    failedSub # {} => View = "error"

\* C4 (as claimed): no step taken in the ready state leaves the ready state,
\* and a step changes what a table displays only if a page fetch of that
\* table was in flight.
C4_SubFetchKeepsReady ==
    [][View = "ready" =>
          /\ View' = "ready"
          /\ \A t \in Tables :
                Displayed(t)' # Displayed(t) =>
                    \E req \in BagToSet(pageReqs) : req.t = t]_vars

\* C5: once loading is false it stays false, except for the reload of the
\* page by the Retry button.
C5_NeverBackToLoading ==
    [][~loading => (~loading' \/ Retry)]_vars

\* C5 witness: the dashboard left loading, the user navigated and changed
\* the date range, and the date fetch failed.
C5_Witness ==
    /\ ~loading
    /\ "daily" \in failedSub
    /\ \E t \in Tables : offset[t] > 0

\* C10: every table's offset is a non-negative multiple of the page size.
C10_OffsetMultipleOfLimit ==
    \A t \in Tables : offset[t] >= 0 /\ offset[t] % PAGE_SIZE = 0

\* C10 witness: a table was moved forward twice, to the third page.
C10_Witness ==
    \E t \in Tables : offset[t] = 2 * PAGE_SIZE /\ total[t] > 2 * PAGE_SIZE

----------------------------------------------------------------------------
(* Properties of the Pagination control *)

\* C6: for 0 <= offset <= total and limit > 0, currentPage is the page that
\* contains row offset (floor(offset/limit) + 1), totalPages is the least
\* number of pages of size limit that hold total rows (ceil(total/limit)),
\* and the visible range is [offset + 1, min(offset + limit, total)].
C6_DerivedValues ==
    (pgOut # <<>> /\ pgIn.offset <= pgIn.total) =>
        LET o == pgOut[1]
            tot == pgIn.total
            off == pgIn.offset
            lim == pgIn.limit
        IN  /\ (o.currentPage - 1) * lim <= off
            /\ off < o.currentPage * lim
            /\ o.totalPages * lim >= tot
            /\ (o.totalPages - 1) * lim < tot
            /\ o.from = off + 1
            /\ o.to <= tot /\ o.to <= off + lim
            /\ o.to = tot \/ o.to = off + lim
            /\ (tot = 45 /\ lim = 20 /\ off = 20) =>
                    <<o.currentPage, o.totalPages, o.from, o.to>> = <<2, 3, 21, 40>>
            /\ (tot = 45 /\ lim = 20 /\ off = 40) =>
                    <<o.currentPage, o.totalPages, o.from, o.to>> = <<3, 3, 41, 45>>

\* C6 witness: the last, partial page of 45 rows in pages of 20.
C6_Witness ==
    /\ pgOut # <<>>
    /\ pgIn = [total |-> 45, offset |-> 40, limit |-> 20]
    /\ pgOut[1].to = 45

\* C7: Next is disabled exactly when offset + limit >= total, and a pressed
\* Next emits offset + limit, which is then below total.
C7_NextEmitsBelowTotal ==
    /\ pgOut # <<>> =>
          (pgOut[1].nextDisabled <=> pgIn.offset + pgIn.limit >= pgIn.total)
    /\ (pgEmit # <<>> /\ pgEmit[1] = "next") =>
          /\ pgEmit[2] = pgIn.offset + pgIn.limit
          /\ pgEmit[2] < pgIn.total

\* C7 witness: Next pressed on the page before the last row.
C7_Witness ==
    /\ pgEmit # <<>>
    /\ pgEmit[1] = "next"
    /\ pgEmit[2] = pgIn.total - 1

\* C8: Prev is disabled exactly when offset = 0, and a pressed Prev emits
\* max(0, offset - limit), never a negative offset.
C8_PrevEmitsClamped ==
    /\ pgOut # <<>> => (pgOut[1].prevDisabled <=> pgIn.offset = 0)
    /\ (pgEmit # <<>> /\ pgEmit[1] = "prev") =>
          /\ pgEmit[2] >= 0
          /\ pgIn.offset >= pgIn.limit => pgEmit[2] = pgIn.offset - pgIn.limit
          /\ pgIn.offset < pgIn.limit => pgEmit[2] = 0

\* C8 witness: Prev pressed at an offset smaller than the limit, the clamp
\* deciding the result.
C8_Witness ==
    /\ pgEmit = <<"prev", 0>>
    /\ pgIn.offset > 0
    /\ pgIn.offset < pgIn.limit

\* C9: the control renders exactly when total > limit, and offers no Prev
\* or Next when total <= limit.
C9_RendersOnlyWhenNeeded ==
    /\ pgOut # <<>> => (pgOut[1].rendered <=> pgIn.total > pgIn.limit)
    /\ pgEmit # <<>> => pgIn.total > pgIn.limit

\* C9 witness: 15 rows in pages of 20 render no control.
C9_Witness ==
    /\ pgOut # <<>>
    /\ pgIn.total = 15
    /\ pgIn.limit = 20
    /\ ~pgOut[1].rendered

----------------------------------------------------------------------------
(* Properties of the offsets and of the error view *)

\* C11 (as claimed): every table's offset lies between 0 and the total last
\* stored for that table.
C11_OffsetWithinTotal ==
    \A t \in Tables : 0 <= offset[t] /\ offset[t] <= total[t]

\* C19: a step taken in the error view either stays in the error view,
\* issuing no fetch and restarting none, or is the reload, which leads to the
\* freshly mounted page: loading, no error, every offset 0, every initial
\* fetch pending and nothing else in flight.
C19_ErrorOnlyLeftByReload ==
    [][View = "error" =>
          \/ /\ View' = "error"
             /\ BagCardinality(pageReqs') <= BagCardinality(pageReqs)
             /\ BagCardinality(dailyReqs') <= BagCardinality(dailyReqs)
             /\ \A f \in Fetches : boot[f].st # "pending" => boot'[f] = boot[f]
          \/ /\ View' = "loading"
             /\ error' = Null
             /\ \A t \in Tables : offset'[t] = 0
             /\ \A f \in Fetches : boot'[f].st = "pending"
             /\ chain' = "wait"
             /\ pageReqs' = EmptyBag /\ dailyReqs' = EmptyBag]_vars

\* C19 witness: the error view entered from the ready state, with another
\* fetch still in flight.
C19_Witness ==
    /\ View = "error"
    /\ "daily" \in failedSub
    /\ BagCardinality(pageReqs) + BagCardinality(dailyReqs) > 0

----------------------------------------------------------------------------
(* Properties of the sortable tables *)

\* C12: a click on the header of the current sort key keeps the key and
\* flips the direction; a click on another header makes it the key and sets
\* the direction to descending.
C12_SortToggle ==
    [][(sortKey' # sortKey \/ sortDir' # sortDir) =>
          IF clicked' = sortKey
          THEN /\ sortKey' = sortKey
               /\ sortDir' = (IF sortDir = "desc" THEN "asc" ELSE "desc")
          ELSE /\ sortKey' = clicked'
               /\ sortDir' = "desc"]_vars

\* C12 witness: the group table, another column chosen and then clicked
\* again.
C12_Witness ==
    /\ tblKind = "grp"
    /\ sortKey = "member_count"
    /\ clicked = "member_count"
    /\ sortDir = "asc"

\* C13: the displayed rows are the rows of the fetched page, each once,
\* ordered on the selected key (positive minus negative for "rating"):
\* non-increasing when descending, non-decreasing when ascending; chat
\* counts 5, 20, 1 display as 20, 5, 1 and as 1, 5, 20.
C13_DisplayIsOrderedPermutation ==
    LET n == Len(tblShown)
        val(r) == IF sortKey = "rating"
                  THEN (IF tblKind = "ws" THEN r.positive - r.negative
                        ELSE r.total_positive - r.total_negative)
                  ELSE r[sortKey]
    IN  /\ n = Len(tblData)
        /\ \A k \in 1..n : \E i \in 1..n : tblShown[i].row = tblData[k]
        /\ \A i, j \in 1..n : i # j => RowId(tblKind, tblShown[i].row) # RowId(tblKind, tblShown[j].row)
        /\ \A i, j \in 1..n :
              i < j => IF sortDir = "desc"
                       THEN val(tblShown[i].row) >= val(tblShown[j].row)
                       ELSE val(tblShown[i].row) <= val(tblShown[j].row)
        /\ (tblKind = "ws" /\ sortKey = "chat_count" /\ n = 3
                /\ [i \in 1..3 |-> tblData[i].chat_count] = <<5, 20, 1>>) =>
              [i \in 1..3 |-> tblShown[i].row.chat_count] =
                  (IF sortDir = "desc" THEN <<20, 5, 1>> ELSE <<1, 5, 20>>)

\* C13 witness: chat counts 5, 20, 1 displayed ascending.
C13_Witness ==
    /\ tblKind = "ws"
    /\ sortKey = "chat_count"
    /\ sortDir = "asc"
    /\ Len(tblData) = 3
    /\ [i \in 1..3 |-> tblData[i].chat_count] = <<5, 20, 1>>
    /\ [i \in 1..3 |-> tblShown[i].row.chat_count] = <<1, 5, 20>>

\* C14: two rows that are equal on the sort key are displayed in the order
\* they have in the fetched page, in both directions.
C14_SortIsStable ==
    \A i, j \in 1..Len(tblShown) :
        (i < j /\ SortValue(tblKind, tblShown[i].row, sortKey)
                    = SortValue(tblKind, tblShown[j].row, sortKey))
            => RowId(tblKind, tblShown[i].row) < RowId(tblKind, tblShown[j].row)

\* C14 witness: descending order, the first and the last fetched row tied
\* and moved behind the second.
C14_Witness ==
    /\ sortDir = "desc"
    /\ Len(tblShown) = 3
    /\ [i \in 1..3 |-> RowId(tblKind, tblShown[i].row)] = <<2, 1, 3>>
    /\ SortValue(tblKind, tblData[1], sortKey) = SortValue(tblKind, tblData[3], sortKey)

\* C15: in the workspace and developer tables the rating shown for a row
\* plus its negative count is its positive count, negative ratings
\* included; rows with the same counts show the same rating; and the row
\* displayed is the fetched row, unmodified.
C15_RatingIsPositiveMinusNegative ==
    tblKind \in {"ws", "dev"} =>
        LET pos(r) == IF tblKind = "ws" THEN r.positive ELSE r.total_positive
            neg(r) == IF tblKind = "ws" THEN r.negative ELSE r.total_negative
        IN  /\ \A i \in 1..Len(tblShown) :
                  /\ tblShown[i].rating + neg(tblShown[i].row) = pos(tblShown[i].row)
                  /\ tblShown[i].rating < 0 <=> pos(tblShown[i].row) < neg(tblShown[i].row)
                  /\ tblShown[i].row = tblData[RowId(tblKind, tblShown[i].row)]
            /\ \A i, j \in 1..Len(tblShown) :
                  (pos(tblShown[i].row) = pos(tblShown[j].row)
                     /\ neg(tblShown[i].row) = neg(tblShown[j].row))
                      => tblShown[i].rating = tblShown[j].rating

\* C15 witness: a workspace row with no positive and two negative
\* feedbacks, shown with rating -2.
C15_Witness ==
    /\ tblKind = "ws"
    /\ \E i \in 1..Len(tblShown) :
          /\ tblShown[i].row.positive = 0
          /\ tblShown[i].row.negative = 2
          /\ tblShown[i].rating = -2

\* C16: a step that changes the sort key or direction issues no fetch and
\* leaves the fetched page and every table's offset, total and rows as they
\* are; the displayed rows are the same rows, possibly in another order.
C16_SortIsLocal ==
    [][(sortKey' # sortKey \/ sortDir' # sortDir) =>
          /\ tblData' = tblData
          /\ UNCHANGED <<offset, total, rows, pageReqs, dailyReqs>>
          /\ Len(tblShown') = Len(tblShown)
          /\ {tblShown'[i] .row : i \in 1..Len(tblShown')}
                = {tblShown[i].row : i \in 1..Len(tblShown)}
          /\ \A i \in 1..Len(tblShown') : tblShown'[i].n = tblShown[i].n]_vars

\* C16 witness: on the second page, a sort that changed the display order.
C16_Witness ==
    /\ offset[tblKind] = PAGE_SIZE
    /\ clicked # "none"
    /\ Len(tblData) = 3
    /\ [i \in 1..3 |-> tblShown[i].row] # tblData

----------------------------------------------------------------------------
(* Properties of the formatting helpers *)

\* C17 (as claimed): both versions of emailPrefix return the placeholder
\* "-" for an empty or absent argument, and otherwise the part of the
\* argument before its first "@" (all of it when it has none).
C17_EmailPrefixEverywhere ==
    (fmtRes # <<>> /\ fmtRes[1] = <<"emailPrefix">>) =>
        LET IsPrefixBeforeAt(p, s) ==
                /\ ~Includes(p, "@")
                /\ Len(p) <= Len(s)
                /\ SubSeq(s, 1, Len(p)) = p
                /\ Len(p) = Len(s) \/ s[Len(p) + 1] = "@"
        IN
        \A k \in {2, 3} :
            IF fmtArg = <<>> \/ fmtArg = Undefined
            THEN fmtRes[k] = Dash
            ELSE IsPrefixBeforeAt(fmtRes[k], fmtArg)

\* C18: both versions of formatDate return "-" for an empty or absent
\* argument and for "None"; otherwise the first 16 characters of the
\* argument with the first "T" among them replaced by a space; and the two
\* versions agree.
C18_FormatDate ==
    (fmtRes # <<>> /\ fmtRes[1] = <<"formatDate">>) =>
        /\ fmtRes[2] = fmtRes[3]
        /\ IF fmtArg = <<>> \/ fmtArg = Undefined \/ fmtArg = NoneStr
           THEN fmtRes[2] = Dash
           ELSE LET out == fmtRes[2]
                    n == IF Len(fmtArg) < 16 THEN Len(fmtArg) ELSE 16
                    firstT(i) == fmtArg[i] = "T" /\ \A j \in 1..(i - 1) : fmtArg[j] # "T"
                IN  /\ Len(out) = n
                    /\ \A i \in 1..n :
                          out[i] = IF firstT(i) THEN " " ELSE fmtArg[i]
        /\ fmtArg = IsoExample => fmtRes[2] = IsoFormatted

\* C18 witness: the timestamp of the example, cut after the minutes.
C18_Witness ==
    /\ fmtArg = IsoExample
    /\ fmtRes # <<>>
    /\ fmtRes[1] = <<"formatDate">>
    /\ fmtRes[3] = IsoFormatted

----------------------------------------------------------------------------
(* Properties of the MockAuthBanner *)

\* C20: the user never contains "@"; a submission ends editing; a blank
\* submission leaves the user as it is; any other submission makes the user
\* the trimmed input, cut before its first "@".
C20_SubmittedUserIsPrefix ==
    [][/\ ~Includes(mockUser', "@")
       /\ (bnLast' = "submit" /\ bnLast # "submit") =>
             LET t == Trim(inputValue)
                 n == Len(mockUser')
             IN  /\ ~editing'
                 /\ t = <<>> => mockUser' = mockUser
                 /\ t # <<>> => /\ n <= Len(t)
                                /\ SubSeq(t, 1, n) = mockUser'
                                /\ n = Len(t) \/ t[n + 1] = "@"]_vars

\* C20 witness: "a@a" submitted, the user is "a".
C20_Witness ==
    /\ bnLast = "submit"
    /\ inputValue = <<"a", "@", "a">>
    /\ mockUser = <<"a">>
    /\ ~editing

----------------------------------------------------------------------------
(* Properties of the initial fetches and of the follow-up fetches *)

\* C21: when the dashboard leaves loading every table's offset is 0, and
\* when it becomes ready every table shows the page of offset 0 that its
\* initial fetch returned; an initial fetch that has settled is pending
\* again only by a reload, which issues all of them again together.
C21_InitialFetchesOnceAtOffsetZero ==
    [][/\ (loading /\ ~loading') =>
             /\ \A t \in Tables : offset'[t] = 0
             /\ error' = Null =>
                   /\ AllResolved(boot')
                   /\ \A t \in Tables :
                         /\ boot'[t].val.items = PageRes(0, boot'[t].val.total).items
                         /\ rows'[t] = boot'[t].val.items
                         /\ total'[t] = boot'[t].val.total
       /\ \A f \in Fetches :
             (boot[f].st # "pending" /\ boot'[f].st = "pending") =>
                 /\ View = "error"
                 /\ \A g \in Fetches : boot'[g].st = "pending"]_vars

\* C21 witness: the dashboard just became ready, the tables on their first
\* page, one of them with more pages to come.
C21_Witness ==
    /\ View = "ready"
    /\ navs = 0
    /\ AllResolved(boot)
    /\ \A t \in Tables : offset[t] = 0 /\ rows[t].off = 0
    /\ \E t \in Tables : total[t] > PAGE_SIZE

\* C22: a page fetch or a daily-stats fetch is issued only in the ready
\* view, where every initial fetch has resolved; and while an initial fetch
\* is pending no follow-up fetch is in flight.
C22_SubFetchesOnlyWhenReady ==
    /\ []((\E f \in Fetches : boot[f].st = "pending") =>
              (pageReqs = EmptyBag /\ dailyReqs = EmptyBag))
    /\ [][(BagCardinality(pageReqs') > BagCardinality(pageReqs)
             \/ BagCardinality(dailyReqs') > BagCardinality(dailyReqs)) =>
                (View = "ready" /\ AllResolved(boot))]_vars

\* C22 witness: a page fetch and a daily-stats fetch in flight in the ready
\* view.
C22_Witness ==
    /\ View = "ready"
    /\ AllResolved(boot)
    /\ BagCardinality(pageReqs) = 1
    /\ BagCardinality(dailyReqs) = 1

\* C23 (as claimed): no table has two page fetches in flight.
C23_OneFetchPerTable ==
    \A t \in Tables :
        BagCardinality([req \in {q \in BagToSet(pageReqs) : q.t = t} |->
                            CopiesIn(req, pageReqs)]) <= 1

\* C25 (as claimed): with no follow-up fetch in flight, every table shows
\* the page of its current offset and the chart shows the series of the
\* current date range.
C25_SettledMatchesSelector ==
    (View = "ready" /\ pageReqs = EmptyBag /\ dailyReqs = EmptyBag) =>
        /\ \A t \in Tables : rows[t].off = offset[t]
        /\ daily.rng = dateRange

\* C26: a step that issues or completes a page fetch of one table leaves
\* the offset, rows and total of every other table, the overview, the
\* series and the date range as they are; and a step that issues or
\* completes a daily-stats fetch leaves every table's offset, rows and
\* total and the overview as they are.
C26_NavigationFrame ==
    [][~loading' =>
          /\ pageReqs' # pageReqs =>
                \E t \in Tables :
                    /\ \A u \in Tables \ {t} :
                          /\ offset'[u] = offset[u]
                          /\ rows'[u] = rows[u]
                          /\ total'[u] = total[u]
                    /\ \A q \in BagToSet(pageReqs) \cup BagToSet(pageReqs') :
                          q.t # t => CopiesIn(q, pageReqs') = CopiesIn(q, pageReqs)
                    /\ overview' = overview
                    /\ daily' = daily
                    /\ dateRange' = dateRange
                    /\ dailyReqs' = dailyReqs
          /\ dailyReqs' # dailyReqs =>
                /\ offset' = offset
                /\ rows' = rows
                /\ total' = total
                /\ overview' = overview
                /\ pageReqs' = pageReqs]_vars

\* C26 witness: one table moved to its second page and shows it, with a
\* total other than before, and the other tables are where they were.
C26_Witness ==
    /\ View = "ready"
    /\ \E t \in Tables :
          /\ offset[t] = PAGE_SIZE
          /\ rows[t].off = PAGE_SIZE
          /\ total[t] = PAGE_SIZE - 5
          /\ \A u \in Tables \ {t} :
                offset[u] = 0 /\ rows[u].off = 0 /\ total[u] = 2 * PAGE_SIZE + 5

\* C24: when every initial fetch eventually settles, a loading dashboard
\* eventually leaves loading; and as long as an initial fetch is pending and
\* none has rejected, the dashboard is loading.
C24_LeavesLoadingIffSettled ==
    /\ loading ~> ~loading
    /\ []((~AnyRejected /\ \E f \in Fetches : boot[f].st = "pending") => loading)

\* C24 witness: loading has been left through a rejection while another
\* initial fetch, never cancelled, is still pending.
C24_Witness ==
    /\ ~loading
    /\ chain = "done"
    /\ AnyRejected
    /\ \E f \in Fetches : boot[f].st = "pending"

----------------------------------------------------------------------------
(* Properties of a sortable table across page changes *)

----------------------------------------------------------------------------
(* Properties of the toasts *)

\* C28: every displayed toast is eventually not displayed; a step in which
\* a timer fires removes exactly the toast of the timer's id from the list
\* of its provider, the others keeping their order, and changes no list
\* when that toast is not displayed any more; and a dismissal removes
\* exactly one toast of one list.
C28_ToastsRemovedOneByOne ==
    /\ \A p \in Providers : \A id \in 0..MaxToasts : IsShown(p, id) ~> ~IsShown(p, id)
    /\ [][LET Without(old, k) == SubSeq(old, 1, k - 1) \o SubSeq(old, k + 1, Len(old))
          IN  /\ \A tm \in timers \ timers' :
                    IF IsShown(tm.p, tm.id)
                    THEN /\ \E k \in 1..Len(toasts[tm.p]) :
                               /\ toasts[tm.p][k].id = tm.id
                               /\ toasts'[tm.p] = Without(toasts[tm.p], k)
                         /\ \A q \in Providers \ {tm.p} : toasts'[q] = toasts[q]
                    ELSE toasts' = toasts
              /\ (timers' = timers /\ created' = created /\ toasts' # toasts) =>
                    \E p \in Providers :
                        /\ \E k \in 1..Len(toasts[p]) : toasts'[p] = Without(toasts[p], k)
                        /\ \A q \in Providers \ {p} : toasts'[q] = toasts[q]]_vars

\* C28 witness: the timer of a toast dismissed by hand has fired, and a
\* toast created before it and one created after it are still displayed.
C28_Witness ==
    /\ tLast = [ev |-> "timer", hit |-> FALSE]
    /\ \E p \in Providers :
          /\ Len(toasts[p]) = 2
          /\ toasts[p][1].id = 0
          /\ toasts[p][2].id = 2

\* C29: the ids of the toasts created so far strictly increase in creation
\* order, whichever provider created them, and no two displayed toasts,
\* of one provider or of two, have the same id.
C29_ToastIdsUnique ==
    /\ \A i, j \in 1..Len(created) : i < j => created[i].id < created[j].id
    /\ \A p, q \in Providers :
          \A i \in 1..Len(toasts[p]) : \A j \in 1..Len(toasts[q]) :
              (toasts[p][i].id = toasts[q][j].id) => (p = q /\ i = j)
    /\ \A p \in Providers :
          \A i \in 1..Len(toasts[p]) :
              \E k \in 1..Len(created) : created[k] = [p |-> p, id |-> toasts[p][i].id]

\* C29 witness: two providers display toasts at the same time.
C29_Witness ==
    /\ Len(toasts["p1"]) = 2
    /\ Len(toasts["p2"]) = 1
    /\ toasts["p2"][1].id = 1

----------------------------------------------------------------------------
(* Properties of the mock user *)

\* C30 (as claimed): the mock user is never the empty string, and once a
\* user has been persisted the persisted value is the current user.
C30_MockUserNeverEmpty ==
    /\ mockUser # <<>>
    /\ stored # NoItem => (stored = mockUser /\ stored # <<>>)

====
